---- MODULE Spec2Model ----
(***************************************************************************)
(* A model of cashflow-cli: the ledger kept in data.ron, the commands that *)
(* change it, and the projection engine (src/projection/cashflow.rs) that  *)
(* the plan command runs on it.                                            *)
(*                                                                         *)
(* Dates (chrono::NaiveDate) are day numbers counted from 1970-01-01, so   *)
(* that comparing and adding days are integer operations; year, month and  *)
(* day are computed from the day number by the proleptic Gregorian rules.  *)
(* Amounts (rust_decimal::Decimal) are integers: the amounts used have no  *)
(* fractional part and stay far from Decimal's 96-bit range.               *)
(* An Option is a sequence: <<>> is None and <<v>> is Some(v).             *)
(***************************************************************************)
EXTENDS Integers, Sequences, FiniteSets, TLC

VARIABLES
    data,    \* the persisted ledger (CashflowData)
    today,   \* the civil date the local clock shows
    now,     \* the UTC clock: the source of created_at timestamps
    out,     \* the outcome of the last command
    disk,    \* the data directory: the files data.ron and data.ron.tmp
    saver    \* the processes that are inside save_data

vars == <<data, today, now, out, disk, saver>>

----------------------------------------------------------------------------
(* chrono::NaiveDate *)

\* NaiveDate's day number of the civil date y-m-d (valid or not).
days_from_civil(y, m, d) ==
    LET yy  == IF m <= 2 THEN y - 1 ELSE y
        era == yy \div 400
        yoe == yy - era * 400
        mp  == IF m > 2 THEN m - 3 ELSE m + 9
        doy == (153 * mp + 2) \div 5 + d - 1
        doe == yoe * 365 + yoe \div 4 - yoe \div 100 + doy
    IN  era * 146097 + doe - 719468

\* <<year, month, day>> of a day number.
civil_from_days(date) ==
    LET z   == date + 719468
        era == z \div 146097
        doe == z - era * 146097
        yoe == (doe - doe \div 1460 + doe \div 36524 - doe \div 146096) \div 365
        doy == doe - (365 * yoe + yoe \div 4 - yoe \div 100)
        mp  == (5 * doy + 2) \div 153
        d   == doy - (153 * mp + 2) \div 5 + 1
        m   == IF mp < 10 THEN mp + 3 ELSE mp - 9
        y   == yoe + era * 400 + (IF m <= 2 THEN 1 ELSE 0)
    IN  <<y, m, d>>

\* The dates the model computes with lie between these two.
CalendarDays == days_from_civil(2023, 9, 1)..days_from_civil(2026, 6, 30)

\* civil_from_days, computed once for every date.
Civil == [date \in CalendarDays |-> civil_from_days(date)]

year(date)  == Civil[date][1]
month(date) == Civil[date][2]
day(date)   == Civil[date][3]

\* NaiveDate::from_ymd_opt: None when y-m-d is not a calendar date.
from_ymd_opt(y, m, d) ==
    IF /\ m \in 1..12
       /\ d \in 1..31
       /\ Civil[days_from_civil(y, m, d)] = <<y, m, d>>
    THEN <<days_from_civil(y, m, d)>>
    ELSE <<>>

\* Option::unwrap: None panics, which no caller below can reach.
unwrap(opt) == opt[1]

\* Option::unwrap_or_else
unwrap_or_else(opt, fallback) == IF opt = <<>> THEN fallback ELSE opt[1]

Min(a, b) == IF a <= b THEN a ELSE b

\* F applied to the value of x. TLC evaluates an operator's arguments and
\* LET definitions at every use; a value bound through a set is evaluated
\* once, which is what a let binding or a loop variable of the code is.
Strict(x, F(_)) == CHOOSE r \in {F(v) : v \in {x}} : TRUE

----------------------------------------------------------------------------
(* src/projection/cashflow.rs: calendar helpers *)

days_in_month_no_leap(y, m) ==
    IF m = 2 THEN 28 ELSE IF m \in {4, 6, 9, 11} THEN 30 ELSE 31

\* Returns the number of days in a given month
days_in_month(y, m) ==
    LET next_month_first ==
            IF m = 12 THEN unwrap(from_ymd_opt(y + 1, 1, 1))
                      ELSE unwrap(from_ymd_opt(y, m + 1, 1))
        last_day == next_month_first - 1
    IN  day(last_day)

\* Gets the actual date for a recurring transaction in a given month
get_transaction_date_in_month(base_date, day_of_month) ==
    LET y == year(base_date)
        m == month(base_date)
        actual_day == Min(day_of_month, days_in_month(y, m))
    IN  from_ymd_opt(y, m, actual_day)

next_month_rollover(date) == date + days_in_month(year(date), month(date))

next_month_successor(date) ==
    LET first == date - day(date) + 1 + days_in_month(year(date), month(date))
    IN  IF day(date) <= days_in_month(year(first), month(first))
        THEN first + day(date) - 1
        ELSE first + days_in_month(year(first), month(first))

next_month_last_day(date) ==
    LET first == date - day(date) + 1 + days_in_month(year(date), month(date))
    IN  first + Min(day(date), days_in_month(year(first), month(first))) - 1

\* Advances date to the same day next month
next_month(date) ==
    LET y == year(date)
        m == month(date)
        d == day(date)
    IN  IF m = 12
        THEN unwrap_or_else(from_ymd_opt(y + 1, 1, d),
                            unwrap(from_ymd_opt(y + 1, 1, 1)))
        ELSE unwrap_or_else(from_ymd_opt(y, m + 1, d),
                            unwrap(from_ymd_opt(y, m + 1, 1)))

----------------------------------------------------------------------------
(* src/models/data.rs *)

\* CashflowData::default()
CashflowDataDefault ==
    [recurring |-> <<>>, one_time |-> <<>>, balance_snapshots |-> <<>>]

\* RecurringTransaction::new
RecurringTransactionNew(id, description, amount, day_of_month, created_at) ==
    [id |-> id, description |-> description, amount |-> amount,
     day_of_month |-> day_of_month, active |-> TRUE, created_at |-> created_at]

\* OneTimeTransaction::new
OneTimeTransactionNew(id, description, amount, date, created_at) ==
    [id |-> id, description |-> description, amount |-> amount,
     date |-> date, created_at |-> created_at]

\* BalanceSnapshot::new
BalanceSnapshotNew(id, date, balance, created_at) ==
    [id |-> id, date |-> date, balance |-> balance, created_at |-> created_at]

from_recurring_balance_before(txn, date, balance_after) ==
    [date |-> date, day_of_month |-> txn.day_of_month,
     description |-> txn.description, amount |-> txn.amount,
     is_one_time |-> FALSE, balance_after |-> balance_after - txn.amount]

from_recurring_day_of_date(txn, date, balance_after) ==
    [date |-> date, day_of_month |-> day(date),
     description |-> txn.description, amount |-> txn.amount,
     is_one_time |-> FALSE, balance_after |-> balance_after]

\* TransactionView::from_recurring
from_recurring(txn, date, balance_after) ==
    [date |-> date, day_of_month |-> txn.day_of_month,
     description |-> txn.description, amount |-> txn.amount,
     is_one_time |-> FALSE, balance_after |-> balance_after]

\* TransactionView::from_one_time
from_one_time(txn, balance_after) ==
    [date |-> txn.date, day_of_month |-> day(txn.date),
     description |-> txn.description, amount |-> txn.amount,
     is_one_time |-> TRUE, balance_after |-> balance_after]

----------------------------------------------------------------------------
(* src/projection/cashflow.rs: the projection engine *)

RECURSIVE max_by_key_first(_, _, _)
max_by_key_first(s, i, best) ==
    IF i > Len(s) THEN best
    ELSE IF best = 0 \/ s[i].date > s[best].date
         THEN max_by_key_first(s, i + 1, i)
         ELSE max_by_key_first(s, i + 1, best)

max_by_key_last(s, i, best) == Len(s)

\* Iterator::max_by_key(|s| s.date): the index of the element with the
\* maximum date, the last one among equals; 0 for an empty sequence.
RECURSIVE max_by_key_date(_, _, _)
max_by_key_date(s, i, best) ==
    IF i > Len(s) THEN best
    ELSE IF best = 0 \/ s[i].date >= s[best].date
         THEN max_by_key_date(s, i + 1, i)
         ELSE max_by_key_date(s, i + 1, best)

\* Finds the most recent balance snapshot
find_latest_balance_snapshot(d) ==
    LET i == max_by_key_date(d.balance_snapshots, 1, 0)
    IN  IF i = 0 THEN <<>> ELSE <<d.balance_snapshots[i]>>

in_recurring_window_open_end(txn_date, start_date, end_date) ==
    txn_date > start_date /\ txn_date < end_date

in_recurring_window_closed_start(txn_date, start_date, end_date) ==
    txn_date >= start_date /\ txn_date <= end_date

\* Only include if it's after start_date and within end_date
in_recurring_window(txn_date, start_date, end_date) ==
    txn_date > start_date /\ txn_date <= end_date

past_end_month_reached(current_date, end_date) ==
    \/ year(current_date) > year(end_date)
    \/ /\ year(current_date) = year(end_date)
       /\ month(current_date) >= month(end_date)

past_end_month_month_only(current_date, end_date) ==
    month(current_date) > month(end_date)

\* Exit if we've moved past end_date's month
past_end_month(current_date, end_date) ==
    \/ year(current_date) > year(end_date)
    \/ /\ year(current_date) = year(end_date)
       /\ month(current_date) > month(end_date)

\* The loop of generate_recurring_transactions, entered with the month
\* pointer current_date and the transactions pushed so far.
RECURSIVE generate_loop(_, _, _, _, _)
generate_loop(recurring, start_date, end_date, current_date, transactions) ==
    LET push(opt) ==
            IF opt # <<>> /\ in_recurring_window(opt[1], start_date, end_date)
            THEN Append(transactions,
                        [date |-> opt[1],
                         txn |-> [id |-> recurring.id,
                                  description |-> recurring.description,
                                  amount |-> recurring.amount,
                                  date |-> opt[1],
                                  created_at |-> recurring.created_at],
                         is_recurring |-> TRUE])
            ELSE transactions
        pushed == Strict(get_transaction_date_in_month(current_date,
                                                       recurring.day_of_month), push)
    IN  Strict(<<next_month(current_date), pushed>>,
               LAMBDA st : IF past_end_month(st[1], end_date)
                           THEN st[2]
                           ELSE generate_loop(recurring, start_date, end_date,
                                              st[1], st[2]))

\* Generates recurring transaction instances for the projection window
generate_recurring_transactions(recurring, start_date, end_date) ==
    Strict(<<recurring, start_date, end_date>>,
           LAMBDA a : generate_loop(a[1], a[2], a[3], a[2], <<>>))

is_projected_always(recurring) == TRUE

\* for recurring in &data.recurring { if !recurring.active { continue; } ... }
is_projected(recurring) == recurring.active

\* The transactions of every projected rule over (start_date, end_date],
\* rule after rule in ledger order.
extend_recurring(rules, start_date, end_date) ==
    LET RECURSIVE extend(_, _)
        extend(i, transactions) ==
            IF i > Len(rules) THEN transactions
            ELSE Strict(<<i + 1,
                          IF is_projected(rules[i])
                          THEN transactions \o
                               generate_recurring_transactions(rules[i], start_date, end_date)
                          ELSE transactions>>,
                        LAMBDA st : extend(st[1], st[2]))
    IN  extend(1, <<>>)

in_past_window_closed(date, snapshot_date, today_date) ==
    date > snapshot_date /\ date <= today_date

\* if one_time.date > snapshot.date && one_time.date < today
in_past_window(date, snapshot_date, today_date) ==
    date > snapshot_date /\ date < today_date

in_future_window_open(date, today_date, end_date) ==
    date > today_date /\ date <= end_date

\* if one_time.date >= today && one_time.date <= end_date
in_future_window(date, today_date, end_date) ==
    date >= today_date /\ date <= end_date

\* (one_time.date, one_time.clone(), false)
one_time_item(one_time) ==
    [date |-> one_time.date, txn |-> one_time, is_recurring |-> FALSE]

cmp_less_date_only(a, b) == a.date < b.date

\* a.0.cmp(&b.0).then_with(|| a.1.created_at.cmp(&b.1.created_at)) is Less
cmp_less(a, b) ==
    \/ a.date < b.date
    \/ a.date = b.date /\ a.txn.created_at < b.txn.created_at

sort_by_unsorted(s) == s

\* Vec::sort_by with the comparison above, a stable sort: each element in
\* turn is put after every element not greater than it.
sort_by(s) ==
    LET insert(sorted, x) ==
            LET before == {k \in 1..Len(sorted) : ~cmp_less(x, sorted[k])}
                n == Cardinality(before)
            IN  SubSeq(sorted, 1, n) \o <<x>> \o SubSeq(sorted, n + 1, Len(sorted))
        RECURSIVE sort(_, _)
        sort(i, sorted) ==
            IF i > Len(s) THEN sorted
            ELSE Strict(<<i + 1, insert(sorted, s[i])>>,
                        LAMBDA st : sort(st[1], st[2]))
    IN  sort(1, <<>>)

\* for (_date, txn, _is_recurring) in past_transactions { current_balance += txn.amount; }
apply_amounts(balance, items) ==
    LET RECURSIVE apply(_, _)
        apply(i, current_balance) ==
            IF i > Len(items) THEN current_balance
            ELSE Strict(<<i + 1, current_balance + items[i].txn.amount>>,
                        LAMBDA st : apply(st[1], st[2]))
    IN  apply(1, balance)

find_recurring_by_description(rules, txn) ==
    LET hits == {i \in 1..Len(rules) : rules[i].description = txn.description}
    IN  IF hits = {} THEN <<>>
        ELSE <<rules[CHOOSE i \in hits : \A j \in hits : i <= j]>>

\* data.recurring.iter().find(|r| r.id == txn.id)
find_recurring(rules, txn) ==
    LET hits == {i \in 1..Len(rules) : rules[i].id = txn.id}
    IN  IF hits = {} THEN <<>>
        ELSE <<rules[CHOOSE i \in hits : \A j \in hits : i <= j]>>

add_amount_overwrite(current_balance, txn) == txn.amount

\* current_balance += txn.amount
add_amount(current_balance, txn) == current_balance + txn.amount

\* Step 3: the walk over the sorted transactions with the running balance.
walk(d, transactions, starting_balance) ==
    LET row(item, balance) ==
            IF item.is_recurring
            THEN LET rule == find_recurring(d.recurring, item.txn)
                 IN  IF rule # <<>>
                     THEN <<from_recurring(rule[1], item.date, balance)>>
                     ELSE <<>>
            ELSE <<from_one_time(item.txn, balance)>>
        RECURSIVE step(_, _, _)
        step(i, current_balance, projected) ==
            IF i > Len(transactions) THEN projected
            ELSE Strict(add_amount(current_balance, transactions[i].txn),
                        LAMBDA balance :
                            Strict(<<i + 1, projected \o row(transactions[i], balance)>>,
                                   LAMBDA st : step(st[1], balance, st[2])))
    IN  step(1, starting_balance, <<>>)

\* The one-time entries the predicate Keep(date) holds for, in ledger order.
one_time_items(d, Keep(_)) ==
    SelectSeq([i \in 1..Len(d.one_time) |-> one_time_item(d.one_time[i])],
              LAMBDA it : Keep(it.date))

current_balance_at_snapshot_only(d, snapshot, today_date) == snapshot.balance

\* Step 1: the balance as of today_date.
current_balance_at(d, snapshot, today_date) ==
    IF today_date > snapshot.date
    THEN LET past_transactions ==
                 extend_recurring(d.recurring, snapshot.date, today_date)
                 \o one_time_items(d, LAMBDA date :
                                          in_past_window(date, snapshot.date, today_date))
         IN  Strict(sort_by(past_transactions),
                    LAMBDA sorted : apply_amounts(snapshot.balance, sorted))
    ELSE snapshot.balance

window_transactions_open_end(d, today_date, days) ==
    Strict(today_date + days - 1,
           LAMBDA end_date :
               Strict(extend_recurring(d.recurring, today_date, end_date)
                      \o one_time_items(d, LAMBDA date :
                                               in_future_window(date, today_date, end_date)),
                      sort_by))

\* Step 2: the transactions of the window, sorted.
window_transactions(d, today_date, days) ==
    Strict(today_date + days,
           LAMBDA end_date :
               Strict(extend_recurring(d.recurring, today_date, end_date)
                      \o one_time_items(d, LAMBDA date :
                                               in_future_window(date, today_date, end_date)),
                      sort_by))

NoBalanceAnchor == "No balance snapshots found. Please set initial balance first."

\* NaiveDate::MIN and NaiveDate::MAX, the dates chrono can represent
NaiveDateMin == days_from_civil(-262143, 1, 1)
NaiveDateMax == days_from_civil(262142, 12, 31)

\* NaiveDate::checked_add_signed(Duration::days(days)): None out of range
checked_add_days(date, days) ==
    IF NaiveDateMin <= date + days /\ date + days <= NaiveDateMax
    THEN <<date + days>>
    ELSE <<>>

\* today + Duration::days(days) is checked_add_signed(..).expect(..): a
\* panic, which ends the process with this message
Overflowed == [ok |-> FALSE, panic |-> "NaiveDate + TimeDelta overflowed"]

\* project_cashflow after the snapshot is found: steps 1 to 3. A panic at
\* end_date comes after step 1, which changes nothing but locals.
project_from(d, snapshot, today_date, days) ==
    IF checked_add_days(today_date, days) = <<>>
    THEN Overflowed
    ELSE Strict(<<current_balance_at(d, snapshot, today_date),
                  window_transactions(d, today_date, days)>>,
                LAMBDA b : [ok |-> TRUE,
                            starting_balance |-> b[1],
                            today |-> today_date,
                            projected |-> walk(d, b[2], b[1])])

project_cashflow_zero(d, today_date, days) ==
    Strict(<<d, today_date, days, find_latest_balance_snapshot(d)>>,
           LAMBDA a : IF a[4] = <<>>
                      THEN [ok |-> TRUE, starting_balance |-> 0,
                            today |-> a[2], projected |-> <<>>]
                      ELSE project_from(a[1], a[4][1], a[2], a[3]))

\* project_cashflow, with Local::now().date_naive() given as today_date
project_cashflow(d, today_date, days) ==
    Strict(<<d, today_date, days, find_latest_balance_snapshot(d)>>,
           LAMBDA a : IF a[4] = <<>>
                      THEN [ok |-> FALSE, err |-> NoBalanceAnchor]
                      ELSE project_from(a[1], a[4][1], a[2], a[3]))

----------------------------------------------------------------------------
(* Bounds and the inputs the commands are given *)

\* The number of records (rules, entries, snapshots) the commands create.
MaxOps == 3

\* The number of days after FirstAnchor the scenarios take as anchor date.
SpanDays == 730

FirstAnchor == days_from_civil(2024, 1, 1)
AnchorDates == FirstAnchor..(FirstAnchor + SpanDays)

\* The dates the clock shows in the command-driven specification: a 31st
\* before a leap February, and the last day of a 30-day month.
Todays ==
    {days_from_civil(2024, 1, 31), days_from_civil(2024, 4, 30)}

\* What a command other than plan returns: Ok(()) or an error
Ok == [cmd |-> "command", ok |-> TRUE]
Err(msg) == [cmd |-> "command", ok |-> FALSE, err |-> msg]

\* What the edit and delete commands return, with the command's name
Done(cmd) == [cmd |-> cmd, ok |-> TRUE]
Failed(cmd, msg) == [cmd |-> cmd, ok |-> FALSE, err |-> msg]

\* Ok(()) of balance set after it has printed "Updated balance for ..."
\* and not "Set balance for ..."
Updated == [cmd |-> "command", ok |-> TRUE, printed |-> "Updated balance"]

----------------------------------------------------------------------------
(* src/storage/ron_storage.rs: the data directory *)

\* The number of processes that run save_data at the same time.
NumSavers == 2
Savers == 1..NumSavers

\* A directory entry names an inode, 0 when there is no such file; an
\* inode's content is the sequence of the pieces written to it.
NoFiles == [ron |-> 0, tmp |-> 0, inodes |-> <<>>]

\* No process is inside save_data.
NoSaver == [p \in Savers |-> [pc |-> "idle", fd |-> 0, written |-> 0]]

----------------------------------------------------------------------------
(* src/commands: one action per command; load_data and save_data are the  *)
(* read and the replacement of data                                        *)

\* parse_amount and parse_date: an argument string is given by what it
\* parses to, None when it does not parse.
InvalidAmount == "Invalid amount format. Use: 22158 or -478"
InvalidDate == "Invalid date format. Use: DD.MM.YYYY or YYYY-MM-DD"

\* execute_recurring_add
execute_recurring_add(description, amount_arg, day_arg) ==
    /\ IF ~(day_arg \in 1..31)
       THEN /\ out' = Err("Day must be between 1 and 31")
            /\ UNCHANGED <<data, now>>
       ELSE IF amount_arg = <<>>
       THEN /\ out' = Err(InvalidAmount)
            /\ UNCHANGED <<data, now>>
       ELSE /\ now < MaxOps
            /\ data' = [data EXCEPT !.recurring =
                           Append(@, RecurringTransactionNew(
                                         now + 1, description, amount_arg[1],
                                         day_arg, now + 1))]
            /\ now' = now + 1
            /\ out' = Ok
    /\ UNCHANGED <<today, disk, saver>>

\* Uuid: an identifier is the number the model gives a record; its text
\* (Uuid::to_string) is its first 8 characters and the rest. Uuid::new_v4
\* draws the text at random, so two records may share the first 8
\* characters: here the records 1 and 2 do, 3 and 4 do, and so on.
uuid_to_string(id) == <<(id + 1) \div 2, id>>

\* Uuid::parse_str: the text of a whole identifier parses, a shorter one
\* does not
uuid_parse_str(s) == IF Len(s) = 2 THEN <<s[2]>> ELSE <<>>

\* str::len() >= 8: the text holds the first 8 characters at least
long_enough(s) == Len(s) >= 1

\* str::starts_with
starts_with(text, prefix) ==
    Len(prefix) <= Len(text) /\ SubSeq(text, 1, Len(prefix)) = prefix

none_found(word) ==
    IF word = "recurring"
    THEN "No recurring transaction found with ID starting with"
    ELSE "No one-time transaction found with ID starting with"

\* parse_uuid of recurring.rs and of one_time.rs, which differ in the word
\* (recurring, one-time) their messages name the records with
parse_uuid(s, transactions, word) ==
    LET matching == {i \in 1..Len(transactions) :
                        starts_with(uuid_to_string(transactions[i].id), s)}
    IN  IF uuid_parse_str(s) # <<>>
        THEN [ok |-> TRUE, id |-> uuid_parse_str(s)[1]]
        ELSE IF long_enough(s)
        THEN IF matching = {}
             THEN [ok |-> FALSE, err |-> none_found(word)]
             ELSE IF Cardinality(matching) = 1
             THEN [ok |-> TRUE, id |-> transactions[CHOOSE i \in matching : TRUE].id]
             ELSE [ok |-> FALSE, err |-> "Multiple transactions match"]
        ELSE [ok |-> FALSE, err |-> "Invalid UUID format"]

\* transaction.active = value, for the rule with the given id
set_active(rules, id, value) ==
    LET hits == {i \in 1..Len(rules) : rules[i].id = id}
        first == CHOOSE i \in hits : \A j \in hits : i <= j
    IN  [rules EXCEPT ![first].active = value]

\* execute_recurring_disable
execute_recurring_disable(id_str) ==
    LET parsed == parse_uuid(id_str, data.recurring, "recurring")
    IN  /\ IF ~parsed.ok
           THEN /\ out' = Err(parsed.err)
                /\ UNCHANGED data
           ELSE IF \E i \in 1..Len(data.recurring) : data.recurring[i].id = parsed.id
           THEN /\ data' = [data EXCEPT !.recurring = set_active(@, parsed.id, FALSE)]
                /\ out' = Ok
           ELSE /\ out' = Err("Recurring transaction not found")
                /\ UNCHANGED data
        /\ UNCHANGED <<today, now, disk, saver>>

\* execute_recurring_enable
execute_recurring_enable(id_str) ==
    LET parsed == parse_uuid(id_str, data.recurring, "recurring")
    IN  /\ IF ~parsed.ok
           THEN /\ out' = Err(parsed.err)
                /\ UNCHANGED data
           ELSE IF \E i \in 1..Len(data.recurring) : data.recurring[i].id = parsed.id
           THEN /\ data' = [data EXCEPT !.recurring = set_active(@, parsed.id, TRUE)]
                /\ out' = Ok
           ELSE /\ out' = Err("Recurring transaction not found")
                /\ UNCHANGED data
        /\ UNCHANGED <<today, now, disk, saver>>

\* The position of the first record with the given id, 0 when there is none:
\* iter().position(|t| t.id == id), iter_mut().find(|t| t.id == id)
position(transactions, id) ==
    LET hits == {i \in 1..Len(transactions) : transactions[i].id = id}
    IN  IF hits = {} THEN 0 ELSE CHOOSE i \in hits : \A j \in hits : i <= j

\* Vec::remove(index)
remove(transactions, index) ==
    SubSeq(transactions, 1, index - 1) \o SubSeq(transactions, index + 1, Len(transactions))

\* execute_recurring_delete
execute_recurring_delete(id_str) ==
    LET parsed == parse_uuid(id_str, data.recurring, "recurring")
        index == position(data.recurring, parsed.id)
    IN  /\ IF ~parsed.ok
           THEN /\ out' = Failed("recurring delete", parsed.err)
                /\ UNCHANGED data
           ELSE IF index = 0
           THEN /\ out' = Failed("recurring delete", "Recurring transaction not found")
                /\ UNCHANGED data
           ELSE /\ data' = [data EXCEPT !.recurring = remove(@, index)]
                /\ out' = Done("recurring delete")
        /\ UNCHANGED <<today, now, disk, saver>>

recurring_edit_fields_unchecked(transaction, amount, day_arg, description) ==
    LET with_amount == IF amount = <<>> THEN transaction
                       ELSE [transaction EXCEPT !.amount = amount[1][1]]
        with_day == IF day_arg = <<>> THEN with_amount
                    ELSE [with_amount EXCEPT !.day_of_month = day_arg[1]]
        with_description == IF description = <<>> THEN with_day
                            ELSE [with_day EXCEPT !.description = description[1]]
    IN  IF amount # <<>> /\ amount[1] = <<>>
        THEN [ok |-> FALSE, err |-> InvalidAmount, transaction |-> transaction]
        ELSE [ok |-> TRUE, transaction |-> with_description]

\* The body of execute_recurring_edit from the record found to the save:
\* the fields are assigned one after the other to the record in memory,
\* and a field that fails returns the error with what is assigned so far.
\* amount is None, or Some of what the string parses to.
recurring_edit_fields(transaction, amount, day_arg, description) ==
    LET with_amount == IF amount = <<>> THEN transaction
                       ELSE [transaction EXCEPT !.amount = amount[1][1]]
        with_day == IF day_arg = <<>> THEN with_amount
                    ELSE [with_amount EXCEPT !.day_of_month = day_arg[1]]
        with_description == IF description = <<>> THEN with_day
                            ELSE [with_day EXCEPT !.description = description[1]]
    IN  IF amount # <<>> /\ amount[1] = <<>>
        THEN [ok |-> FALSE, err |-> InvalidAmount, transaction |-> transaction]
        ELSE IF day_arg # <<>> /\ ~(day_arg[1] \in 1..31)
        THEN [ok |-> FALSE, err |-> "Day must be between 1 and 31",
              transaction |-> with_amount]
        ELSE [ok |-> TRUE, transaction |-> with_description]

execute_recurring_edit_save_first(id_str, amount, day_arg, description) ==
    LET parsed == parse_uuid(id_str, data.recurring, "recurring")
        index == position(data.recurring, parsed.id)
        edited == recurring_edit_fields(data.recurring[index], amount, day_arg, description)
    IN  /\ IF ~parsed.ok
           THEN /\ out' = Failed("recurring edit", parsed.err)
                /\ UNCHANGED data
           ELSE IF index = 0
           THEN /\ out' = Failed("recurring edit", "Recurring transaction not found")
                /\ UNCHANGED data
           ELSE /\ data' = [data EXCEPT !.recurring[index] = edited.transaction]
                /\ out' = IF edited.ok THEN Done("recurring edit")
                          ELSE Failed("recurring edit", edited.err)
        /\ UNCHANGED <<today, now, disk, saver>>

\* execute_recurring_edit
execute_recurring_edit(id_str, amount, day_arg, description) ==
    LET parsed == parse_uuid(id_str, data.recurring, "recurring")
        index == position(data.recurring, parsed.id)
        edited == recurring_edit_fields(data.recurring[index], amount, day_arg, description)
    IN  /\ IF ~parsed.ok
           THEN /\ out' = Failed("recurring edit", parsed.err)
                /\ UNCHANGED data
           ELSE IF index = 0
           THEN /\ out' = Failed("recurring edit", "Recurring transaction not found")
                /\ UNCHANGED data
           ELSE IF ~edited.ok
           THEN /\ out' = Failed("recurring edit", edited.err)
                /\ UNCHANGED data
           ELSE /\ data' = [data EXCEPT !.recurring[index] = edited.transaction]
                /\ out' = Done("recurring edit")
        /\ UNCHANGED <<today, now, disk, saver>>

\* The body of execute_one_time_edit from the record found to the save.
\* amount and date are None, or Some of what the string parses to.
one_time_edit_fields(transaction, amount, date, description) ==
    LET with_amount == IF amount = <<>> THEN transaction
                       ELSE [transaction EXCEPT !.amount = amount[1][1]]
        with_date == IF date = <<>> THEN with_amount
                     ELSE [with_amount EXCEPT !.date = date[1][1]]
        with_description == IF description = <<>> THEN with_date
                            ELSE [with_date EXCEPT !.description = description[1]]
    IN  IF amount # <<>> /\ amount[1] = <<>>
        THEN [ok |-> FALSE, err |-> InvalidAmount, transaction |-> transaction]
        ELSE IF date # <<>> /\ date[1] = <<>>
        THEN [ok |-> FALSE, err |-> InvalidDate, transaction |-> with_amount]
        ELSE [ok |-> TRUE, transaction |-> with_description]

\* execute_one_time_edit
execute_one_time_edit(id_str, amount, date, description) ==
    LET parsed == parse_uuid(id_str, data.one_time, "one-time")
        index == position(data.one_time, parsed.id)
        edited == one_time_edit_fields(data.one_time[index], amount, date, description)
    IN  /\ IF ~parsed.ok
           THEN /\ out' = Failed("one-time edit", parsed.err)
                /\ UNCHANGED data
           ELSE IF index = 0
           THEN /\ out' = Failed("one-time edit", "One-time transaction not found")
                /\ UNCHANGED data
           ELSE IF ~edited.ok
           THEN /\ out' = Failed("one-time edit", edited.err)
                /\ UNCHANGED data
           ELSE /\ data' = [data EXCEPT !.one_time[index] = edited.transaction]
                /\ out' = Done("one-time edit")
        /\ UNCHANGED <<today, now, disk, saver>>

\* execute_one_time_delete
execute_one_time_delete(id_str) ==
    LET parsed == parse_uuid(id_str, data.one_time, "one-time")
        index == position(data.one_time, parsed.id)
    IN  /\ IF ~parsed.ok
           THEN /\ out' = Failed("one-time delete", parsed.err)
                /\ UNCHANGED data
           ELSE IF index = 0
           THEN /\ out' = Failed("one-time delete", "One-time transaction not found")
                /\ UNCHANGED data
           ELSE /\ data' = [data EXCEPT !.one_time = remove(@, index)]
                /\ out' = Done("one-time delete")
        /\ UNCHANGED <<today, now, disk, saver>>

\* execute_one_time_add
execute_one_time_add(description, amount_arg, date_arg) ==
    /\ IF amount_arg = <<>>
       THEN /\ out' = Err(InvalidAmount)
            /\ UNCHANGED <<data, now>>
       ELSE IF date_arg = <<>>
       THEN /\ out' = Err(InvalidDate)
            /\ UNCHANGED <<data, now>>
       ELSE /\ now < MaxOps
            /\ data' = [data EXCEPT !.one_time =
                           Append(@, OneTimeTransactionNew(
                                         now + 1, description, amount_arg[1],
                                         date_arg[1], now + 1))]
            /\ now' = now + 1
            /\ out' = Ok
    /\ UNCHANGED <<today, disk, saver>>

execute_balance_set_push(amount_arg, date_str) ==
    LET date == IF date_str = <<>> THEN today ELSE date_str[1][1]
    IN  /\ IF amount_arg = <<>>
           THEN /\ out' = Err(InvalidAmount)
                /\ UNCHANGED <<data, now>>
           ELSE IF date_str # <<>> /\ date_str[1] = <<>>
           THEN /\ out' = Err(InvalidDate)
                /\ UNCHANGED <<data, now>>
           ELSE /\ now < MaxOps
                /\ data' = [data EXCEPT !.balance_snapshots =
                               Append(@, BalanceSnapshotNew(now + 1, date, amount_arg[1],
                                                            now + 1))]
                /\ now' = now + 1
                /\ out' = Ok
        /\ UNCHANGED <<today, disk, saver>>

\* execute_balance_set; date_str is None for the default, today, and else
\* the argument string
execute_balance_set(amount_arg, date_str) ==
    LET date == IF date_str = <<>> THEN today ELSE date_str[1][1]
        snaps == data.balance_snapshots
        hits == {i \in 1..Len(snaps) : snaps[i].date = date}
    IN  /\ IF amount_arg = <<>>
           THEN /\ out' = Err(InvalidAmount)
                /\ UNCHANGED <<data, now>>
           ELSE IF date_str # <<>> /\ date_str[1] = <<>>
           THEN /\ out' = Err(InvalidDate)
                /\ UNCHANGED <<data, now>>
           ELSE IF hits # {}
           THEN /\ data' = [data EXCEPT !.balance_snapshots =
                               [@ EXCEPT ![CHOOSE i \in hits : \A j \in hits : i <= j].balance
                                             = amount_arg[1]]]
                /\ out' = Updated
                /\ UNCHANGED now
           ELSE /\ now < MaxOps
                /\ data' = [data EXCEPT !.balance_snapshots =
                               Append(@, BalanceSnapshotNew(now + 1, date, amount_arg[1],
                                                            now + 1))]
                /\ now' = now + 1
                /\ out' = Ok
        /\ UNCHANGED <<today, disk, saver>>

NoSnapshotFound == "No balance snapshot found. Please set your current balance first"

\* execute_plan
execute_plan(days) ==
    /\ out' = [cmd |-> "plan", days |-> days,
               res |-> IF data.balance_snapshots = <<>>
                       THEN [ok |-> FALSE, err |-> NoSnapshotFound]
                       ELSE project_cashflow(data, today, days)]
    /\ UNCHANGED <<data, today, now, disk, saver>>

----------------------------------------------------------------------------
(* The command-driven specification: an empty ledger, then any commands *)

Init ==
    /\ data = CashflowDataDefault
    /\ today \in Todays
    /\ now = 0
    /\ out = [cmd |-> "none"]
    /\ disk = NoFiles
    /\ saver = NoSaver

\* The arguments given: those that parse, and one case of each that fails.
RecurringAdd ==
    \E arg \in {<<(<<-478>>), day(today)>>, <<(<<-478>>), 31>>,
                <<(<<-478>>), 32>>, <<(<<>>), 31>>} :
        execute_recurring_add("Netflix", arg[1], arg[2])

\* The identifier is given in full: a rule's, or one no rule has.
RuleIds == {data.recurring[i].id : i \in 1..Len(data.recurring)} \cup {0}

RecurringDisable ==
    \E id \in RuleIds : execute_recurring_disable(uuid_to_string(id))

RecurringEnable ==
    \E id \in RuleIds : execute_recurring_enable(uuid_to_string(id))

OneTimeAdd ==
    \E arg \in {<<(<<100>>), <<today - 1>>>>, <<(<<100>>), <<today>>>>,
                <<(<<100>>), <<today + 1>>>>, <<(<<100>>), <<>>>>,
                <<(<<>>), <<today>>>>} :
        execute_one_time_add("Refund", arg[1], arg[2])

BalanceSet ==
    \E arg \in {<<(<<22158>>), <<>>>>, <<(<<10000>>), <<>>>>,
                <<(<<10000>>), <<(<<today - 35>>)>>>>,
                <<(<<22158>>), <<(<<>>)>>>>, <<(<<>>), <<>>>>} :
        execute_balance_set(arg[1], arg[2])

\* The horizons asked for (days is an i64): a negative one, none, the
\* default, and one that reaches past the last date chrono represents
PlanDays == {-1, 0, 30, 100000000}

Plan ==
    \E days \in PlanDays : execute_plan(days)

Next ==
    \/ RecurringAdd
    \/ RecurringDisable
    \/ RecurringEnable
    \/ OneTimeAdd
    \/ BalanceSet
    \/ Plan

Spec == Init /\ [][Next]_vars

----------------------------------------------------------------------------
(* The ledger-command specification: an empty ledger, then any of the       *)
(* commands that write the ledger, with identifiers given in full, by their *)
(* first 8 characters and by less, and with arguments that fail             *)

TodayC == days_from_civil(2024, 1, 31)

InitC ==
    /\ data = CashflowDataDefault
    /\ today = TodayC
    /\ now = 0
    /\ out = [cmd |-> "none"]
    /\ disk = NoFiles
    /\ saver = NoSaver

\* The identifier strings given: the whole text of an identifier no record
\* has (0) and of the first record's, the first 8 characters that the
\* records 1 and 2 share and those that 3 and 4 share (of no, one or two
\* records of the kind, by what the ledger holds), and a string too short.
IdStrings ==
    {uuid_to_string(0), uuid_to_string(1), <<1>>, <<2>>, <<>>}

RecurringAddC ==
    \E arg \in {<<(<<-478>>), 31>>, <<(<<-478>>), 32>>, <<(<<>>), 31>>} :
        execute_recurring_add("Netflix", arg[1], arg[2])

\* The fields edited: all three; a valid amount with a day past 31; an
\* amount that does not parse; day 0.
RecurringEditC ==
    \E id_str \in IdStrings :
    \E arg \in {<<(<<(<<-500>>)>>), <<15>>, <<"HBO">>>>,
                <<(<<(<<-500>>)>>), <<32>>, <<>>>>,
                <<(<<(<<>>)>>), <<15>>, <<>>>>,
                <<(<<>>), <<0>>, <<>>>>} :
        execute_recurring_edit(id_str, arg[1], arg[2], arg[3])

RecurringDisableC ==
    \E id_str \in IdStrings : execute_recurring_disable(id_str)

RecurringEnableC ==
    \E id_str \in IdStrings : execute_recurring_enable(id_str)

RecurringDeleteC ==
    \E id_str \in IdStrings : execute_recurring_delete(id_str)

OneTimeAddC ==
    \E arg \in {<<(<<100>>), <<today>>>>, <<(<<100>>), <<>>>>,
                <<(<<>>), <<today>>>>} :
        execute_one_time_add("Refund", arg[1], arg[2])

OneTimeEditC ==
    \E id_str \in IdStrings :
    \E arg \in {<<(<<(<<150>>)>>), <<(<<today + 1>>)>>, <<"Fee">>>>,
                <<(<<(<<150>>)>>), <<(<<>>)>>, <<>>>>,
                <<(<<(<<>>)>>), <<>>, <<>>>>} :
        execute_one_time_edit(id_str, arg[1], arg[2], arg[3])

OneTimeDeleteC ==
    \E id_str \in IdStrings : execute_one_time_delete(id_str)

BalanceSetC ==
    \E arg \in {<<(<<22158>>), <<>>>>, <<(<<22158>>), <<(<<>>)>>>>,
                <<(<<>>), <<>>>>} :
        execute_balance_set(arg[1], arg[2])

NextC ==
    \/ RecurringAddC
    \/ RecurringEditC
    \/ RecurringDisableC
    \/ RecurringEnableC
    \/ RecurringDeleteC
    \/ OneTimeAddC
    \/ OneTimeEditC
    \/ OneTimeDeleteC
    \/ BalanceSetC

SpecC == InitC /\ [][NextC]_vars

----------------------------------------------------------------------------
(* Scenario A (test_projection_with_recurring): the ledger the test builds, *)
(* for every date the clock may show, and a 30-day plan                     *)

InitA ==
    /\ today \in AnchorDates
    /\ data = [recurring |-> <<RecurringTransactionNew(2, "Netflix", -478, day(today), 2)>>,
               one_time |-> <<>>,
               balance_snapshots |-> <<BalanceSnapshotNew(1, today - 1, 22158, 1)>>]
    /\ now = 2
    /\ out = [cmd |-> "none"]
    /\ disk = NoFiles
    /\ saver = NoSaver

PlanA == execute_plan(30)

SpecA == InitA /\ [][PlanA]_vars

(* Scenario B (test_projection_with_duplicate_descriptions): two rules with *)
(* the same description, for every date, and a 60-day plan                  *)

InitB ==
    /\ today \in AnchorDates
    /\ data = [recurring |-> <<RecurringTransactionNew(2, "Sluzby", -2500, 1, 2),
                               RecurringTransactionNew(3, "Sluzby", -2940, 20, 3)>>,
               one_time |-> <<>>,
               balance_snapshots |-> <<BalanceSnapshotNew(1, today - 7, 10000, 1)>>]
    /\ now = 3
    /\ out = [cmd |-> "none"]
    /\ disk = NoFiles
    /\ saver = NoSaver

PlanB == execute_plan(60)

SpecB == InitB /\ [][PlanB]_vars

----------------------------------------------------------------------------
(* The ledger specification: load_data returns whatever data.ron holds, so  *)
(* the ledger is any value of CashflowData: records stored in any order,    *)
(* snapshots dated before, on and after today, rules switched off, and      *)
(* records whose created_at, read from the wall clock, are equal.           *)

\* The number of records of each kind the ledger stores.
MaxStored == 2

\* The rules, one-time entries and snapshots the stored ledgers are made of.
StoredRules ==
    {RecurringTransactionNew(1, "Rent", -1000, 1, 10),
     RecurringTransactionNew(2, "Netflix", -478, 31, 20),
     [RecurringTransactionNew(3, "Gym", -300, 1, 30) EXCEPT !.active = FALSE]}

StoredOneTime(t) ==
    {OneTimeTransactionNew(4, "Refund", 100, t + 1, 5),
     OneTimeTransactionNew(5, "Gift", 250, t + 1, 5),
     OneTimeTransactionNew(6, "Fee", -50, t - 1, 40),
     OneTimeTransactionNew(7, "Bonus", 700, t + 1, 3)}

StoredSnapshots(t) ==
    {BalanceSnapshotNew(8, t - 40, 10000, 1),
     BalanceSnapshotNew(9, t - 3, 20000, 2),
     BalanceSnapshotNew(10, t + 2, 40000, 4)}

\* The sequences of at most MaxStored distinct elements of S: a Vec as
\* ron::from_str builds it, in the file's order.
Stored(S) ==
    {s \in UNION {[1..n -> S] : n \in 0..MaxStored} :
        \A i, j \in 1..Len(s) : i # j => s[i] # s[j]}

\* The dates the clock shows: a leap day, the day a rule of day 31 is
\* clamped to, and a 1st after a 28-day February.
TodaysL == {days_from_civil(2024, 2, 29), days_from_civil(2025, 3, 1)}

InitL ==
    /\ today \in TodaysL
    /\ data \in [recurring : Stored(StoredRules),
                 one_time : Stored(StoredOneTime(today)),
                 balance_snapshots : Stored(StoredSnapshots(today))]
    /\ now = 10
    /\ out = [cmd |-> "none"]
    /\ disk = NoFiles
    /\ saver = NoSaver

\* The horizons asked for: none, and the default
PlanDaysL == {0, 30}

PlanL ==
    \E days \in PlanDaysL : execute_plan(days)

SpecL == InitL /\ [][PlanL]_vars

----------------------------------------------------------------------------
(* The tie specification: data.ron holds snapshots of which several share   *)
(* the latest date; execute_balance_set never writes such a file, a hand    *)
(* edit does, and load_data accepts it.                                     *)

\* The number of snapshots the ledger stores.
MaxTied == 3

TiedSnapshots(t) ==
    {BalanceSnapshotNew(11, t - 3, 20000, 1),
     BalanceSnapshotNew(12, t - 3, 25000, 2),
     BalanceSnapshotNew(13, t - 3, 30000, 3),
     BalanceSnapshotNew(14, t - 10, 5000, 4)}

InitN ==
    /\ today \in TodaysL
    /\ \E n \in 0..MaxTied :
       \E snaps \in [1..n -> TiedSnapshots(today)] :
           /\ \A i, j \in 1..n : i # j => snaps[i] # snaps[j]
           /\ data = [CashflowDataDefault EXCEPT !.balance_snapshots = snaps]
    /\ now = 10
    /\ out = [cmd |-> "none"]
    /\ disk = NoFiles
    /\ saver = NoSaver

\* find_latest_balance_snapshot(&data)
LatestN ==
    /\ out' = [cmd |-> "latest", res |-> find_latest_balance_snapshot(data)]
    /\ UNCHANGED <<data, today, now, disk, saver>>

PlanN ==
    \E days \in {0, 30} : execute_plan(days)

NextN == LatestN \/ PlanN

SpecN == InitN /\ [][NextN]_vars

----------------------------------------------------------------------------
(* The expander specification: generate_recurring_transactions applied to   *)
(* one rule, for every start date, day of month and length of interval      *)

\* The longest interval (start_date, end_date] expanded, in days.
MaxInterval == 62

\* day_of_month is a u8: days of every month, days only longer months
\* have, and days no month has
ExpandDays == {1, 15, 28, 29, 30, 31, 32, 255}

Intervals == {0, 1, 28, 31, MaxInterval}

InitE ==
    /\ today \in AnchorDates
    /\ \E day_of_month \in ExpandDays :
           data = [CashflowDataDefault EXCEPT !.recurring =
                      <<RecurringTransactionNew(1, "Netflix", -478, day_of_month, 1)>>]
    /\ now = 1
    /\ out = [cmd |-> "none"]
    /\ disk = NoFiles
    /\ saver = NoSaver

\* generate_recurring_transactions(rule, today, today + len)
ExpandE ==
    /\ \E len \in Intervals :
           out' = [cmd |-> "expand", start_date |-> today, end_date |-> today + len,
                   res |-> generate_recurring_transactions(data.recurring[1],
                                                           today, today + len)]
    /\ UNCHANGED <<data, today, now, disk, saver>>

SpecE == InitE /\ [][ExpandE]_vars

----------------------------------------------------------------------------
(* The loop specification: the loop of generate_recurring_transactions, one *)
(* iteration per step, for every start date, for intervals that end before, *)
(* on and after the start date, and for days every, some and no month has   *)

\* The number of iterations after which the model stops following a loop.
MaxIterations == 6

LoopDays == {1, 30, 31, 255}

LoopIntervals == {-40, -1, 0, 31, MaxInterval}

\* let mut transactions = Vec::new(); let mut current_date = start_date;
InitT ==
    /\ today \in AnchorDates
    /\ \E day_of_month \in LoopDays :
           data = [CashflowDataDefault EXCEPT !.recurring =
                      <<RecurringTransactionNew(1, "Netflix", -478, day_of_month, 1)>>]
    /\ now = 1
    /\ \E len \in LoopIntervals :
           out = [cmd |-> "loop", start_date |-> today, end_date |-> today + len,
                  current_date |-> today, pointers |-> <<>>, resolved |-> <<>>,
                  transactions |-> <<>>, done |-> FALSE]
    /\ disk = NoFiles
    /\ saver = NoSaver

\* One iteration of the loop: resolve the day in the pointer's month, push
\* the date if it is in the window, advance the pointer, test the exit.
\* pointers and resolved record the pointer of every iteration and what
\* get_transaction_date_in_month returned for it.
LoopStep ==
    /\ out.cmd = "loop"
    /\ ~out.done
    /\ Len(out.pointers) < MaxIterations
    /\ LET recurring == data.recurring[1]
           opt == get_transaction_date_in_month(out.current_date,
                                                recurring.day_of_month)
           pushed ==
               IF opt # <<>> /\ in_recurring_window(opt[1], out.start_date,
                                                    out.end_date)
               THEN Append(out.transactions,
                           [date |-> opt[1],
                            txn |-> [id |-> recurring.id,
                                     description |-> recurring.description,
                                     amount |-> recurring.amount,
                                     date |-> opt[1],
                                     created_at |-> recurring.created_at],
                            is_recurring |-> TRUE])
               ELSE out.transactions
           advanced == next_month(out.current_date)
       IN  out' = [out EXCEPT !.pointers = Append(@, out.current_date),
                              !.resolved = Append(@, opt),
                              !.transactions = pushed,
                              !.current_date = advanced,
                              !.done = past_end_month(advanced, out.end_date)]
    /\ UNCHANGED <<data, today, now, disk, saver>>

SpecT == InitT /\ [][LoopStep]_vars

----------------------------------------------------------------------------
(* The save specification: src/storage/ron_storage.rs step by step. Two     *)
(* commands have loaded the same ledger, each has added its record, and     *)
(* each runs save_data; the file system runs one system call at a time. A   *)
(* process may stop at any step, and load_data may run between any two.     *)

\* ron::ser::to_string_pretty: the text of a ledger, in the pieces
\* write_all hands to the file one after the other
to_string_pretty(d) ==
    <<[kind |-> "open"], [kind |-> "body", data |-> d], [kind |-> "close"]>>

\* ron::from_str: the ledger of a complete text, None for any other
from_str(contents) ==
    IF /\ Len(contents) = 3
       /\ contents[1].kind = "open"
       /\ contents[2].kind = "body"
       /\ contents[3].kind = "close"
    THEN <<contents[2].data>>
    ELSE <<>>

\* The ledger process p saves: the ledger it loaded and its new snapshot.
saved(p) ==
    [data EXCEPT !.balance_snapshots =
        Append(@, BalanceSnapshotNew(now + p, today, 1000 * p, now + p))]

\* A write of piece at position k of a file: a file shorter than k - 1
\* pieces is filled up with a hole.
write_at(contents, k, piece) ==
    LET filled == contents \o [i \in 1..(k - 1 - Len(contents)) |-> [kind |-> "hole"]]
    IN  IF Len(filled) >= k
        THEN [filled EXCEPT ![k] = piece]
        ELSE Append(filled, piece)

\* async_fs::write(&tmp_path, contents), first half: File::create opens
\* data.ron.tmp, creating it or truncating the file of that name.
SaveCreate(p) ==
    /\ saver[p].pc = "idle"
    /\ disk' = IF disk.tmp = 0
               THEN [disk EXCEPT !.inodes = Append(@, <<>>),
                                 !.tmp = Len(disk.inodes) + 1]
               ELSE [disk EXCEPT !.inodes[disk.tmp] = <<>>]
    /\ saver' = [saver EXCEPT ![p] = [pc |-> "write", fd |-> disk'.tmp, written |-> 0]]
    /\ UNCHANGED <<data, today, now, out>>

\* async_fs::write, second half: write_all writes the pieces to the file
\* the process has open, whatever name that file has by now.
SaveWrite(p) ==
    /\ saver[p].pc = "write"
    /\ disk' = [disk EXCEPT !.inodes[saver[p].fd] =
                   write_at(@, saver[p].written + 1,
                            to_string_pretty(saved(p))[saver[p].written + 1])]
    /\ saver' = [saver EXCEPT ![p].written = @ + 1,
                              ![p].pc = IF saver[p].written + 1 = 3
                                        THEN "rename" ELSE "write"]
    /\ UNCHANGED <<data, today, now, out>>

\* async_fs::rename(&tmp_path, &ron_path): data.ron names the file that
\* data.ron.tmp named; an error when there is no data.ron.tmp.
SaveRename(p) ==
    /\ saver[p].pc = "rename"
    /\ IF disk.tmp = 0
       THEN /\ saver' = [saver EXCEPT ![p].pc = "failed"]
            /\ UNCHANGED disk
       ELSE /\ disk' = [disk EXCEPT !.ron = disk.tmp, !.tmp = 0]
            /\ saver' = [saver EXCEPT ![p].pc = "done"]
    /\ UNCHANGED <<data, today, now, out>>

\* The process is killed, or the write fails, inside save_data.
SaveCrash(p) ==
    /\ saver[p].pc \in {"write", "rename"}
    /\ saver' = [saver EXCEPT ![p].pc = "crashed"]
    /\ UNCHANGED <<data, today, now, out, disk>>

\* load_data, run by another command
load_data ==
    /\ out' = [cmd |-> "load",
               res |-> IF disk.ron = 0
                       THEN [ok |-> TRUE, data |-> CashflowDataDefault]
                       ELSE IF from_str(disk.inodes[disk.ron]) = <<>>
                       THEN [ok |-> FALSE, err |-> "Failed to parse RON data file"]
                       ELSE [ok |-> TRUE, data |-> from_str(disk.inodes[disk.ron])[1]]]
    /\ UNCHANGED <<data, today, now, disk, saver>>

InitS ==
    /\ today = FirstAnchor
    /\ data = [CashflowDataDefault EXCEPT !.recurring =
                  <<RecurringTransactionNew(1, "Netflix", -478, 14, 1)>>]
    /\ now = 1
    /\ out = [cmd |-> "none"]
    /\ disk = [ron |-> 1, tmp |-> 0, inodes |-> <<to_string_pretty(data)>>]
    /\ saver = NoSaver

NextS ==
    \/ \E p \in Savers : SaveCreate(p)
    \/ \E p \in Savers : SaveWrite(p)
    \/ \E p \in Savers : SaveRename(p)
    \/ \E p \in Savers : SaveCrash(p)
    \/ load_data

SpecS == InitS /\ [][NextS]_vars

----------------------------------------------------------------------------
(* What the properties below speak of *)

PlanRan == out.cmd = "plan"
PlanOk == PlanRan /\ out.res.ok
Rows == out.res.projected

\* The sum of Val(s[i]) over the elements of s that Keep holds for.
SumSeq(s, Keep(_), Val(_)) ==
    LET RECURSIVE Sum(_)
        Sum(i) == IF i > Len(s) THEN 0
                  ELSE (IF Keep(s[i]) THEN Val(s[i]) ELSE 0) + Sum(i + 1)
    IN  Sum(1)

\* The calendar's own account of a rule's occurrence: date is the rule's
\* day of its month, or the month's last day when the month is shorter.
IsOccurrence(rule, date) ==
    \/ day(date) = rule.day_of_month
    \/ day(date) < rule.day_of_month /\ day(date + 1) = 1

\* The latest snapshot; BalanceSet keeps the snapshot dates distinct.
Snap ==
    LET snaps == data.balance_snapshots
    IN  snaps[CHOOSE i \in 1..Len(snaps) : \A j \in 1..Len(snaps) : snaps[j].date <= snaps[i].date]

HasSnap == data.balance_snapshots # <<>>

\* The amounts of everything dated strictly between lo and hi.
StrictlyBetween(lo, hi) ==
    SumSeq(data.recurring, LAMBDA r : r.active,
           LAMBDA r : r.amount * Cardinality({dt \in (lo + 1)..(hi - 1) : IsOccurrence(r, dt)}))
    + SumSeq(data.one_time, LAMBDA e : lo < e.date /\ e.date < hi, LAMBDA e : e.amount)

\* The amounts of the active rules' occurrences on date.
OnDate(date) ==
    SumSeq(data.recurring, LAMBDA r : r.active /\ IsOccurrence(r, date), LAMBDA r : r.amount)

ActiveRuleOn(date) ==
    \E i \in 1..Len(data.recurring) :
        data.recurring[i].active /\ IsOccurrence(data.recurring[i], date)

\* The ledger without its i-th rule, and without its k-th one-time entry.
WithoutRule(i) ==
    [data EXCEPT !.recurring = SubSeq(@, 1, i - 1) \o SubSeq(@, i + 1, Len(@))]
WithoutOneTime(k) ==
    [data EXCEPT !.one_time = SubSeq(@, 1, k - 1) \o SubSeq(@, k + 1, Len(@))]

\* row is the projected row of the one-time entry e.
RowOf(e, row) ==
    /\ row.is_one_time
    /\ row.date = e.date
    /\ row.day_of_month = day(e.date)
    /\ row.amount = e.amount
    /\ row.description = e.description

\* The expander specification: the expansion ran, its rule, its dates.
Expanded == out.cmd = "expand"
ExpandedRule == data.recurring[1]
ExpandedDates == {out.res[i].date : i \in 1..Len(out.res)}

\* The calendar's own account of leap years and of February's last day.
IsLeap(y) == (y % 4 = 0 /\ y % 100 # 0) \/ y % 400 = 0
LastOfFebruary(y) == days_from_civil(y, 2, IF IsLeap(y) THEN 29 ELSE 28)

\* The ledger with nothing but the latest snapshot, and without its k-th.
OnlyLatestSnapshot == [data EXCEPT !.balance_snapshots = <<Snap>>]
WithoutSnapshot(k) ==
    [data EXCEPT !.balance_snapshots = SubSeq(@, 1, k - 1) \o SubSeq(@, k + 1, Len(@))]

\* The ledgers that store the records of data in another order: two
\* neighbours of one of the three lists exchanged. Every other order is
\* reached by such exchanges, and every one of them is a ledger of the
\* ledger specification.
Exchange(s, i) == [s EXCEPT ![i] = s[i + 1], ![i + 1] = s[i]]
Reordered ==
    {[data EXCEPT !.recurring = Exchange(@, i)] : i \in 1..(Len(data.recurring) - 1)}
    \cup {[data EXCEPT !.one_time = Exchange(@, i)] : i \in 1..(Len(data.one_time) - 1)}
    \cup {[data EXCEPT !.balance_snapshots = Exchange(@, i)] :
              i \in 1..(Len(data.balance_snapshots) - 1)}

\* No two rules and no two one-time entries share an id or a created_at,
\* and no two snapshots share a date.
DistinctKeys ==
    /\ \A i, j \in 1..Len(data.recurring) :
           i # j => /\ data.recurring[i].id # data.recurring[j].id
                    /\ data.recurring[i].created_at # data.recurring[j].created_at
    /\ \A i, j \in 1..Len(data.one_time) :
           i # j => /\ data.one_time[i].id # data.one_time[j].id
                    /\ data.one_time[i].created_at # data.one_time[j].created_at
    /\ \A i, j \in 1..Len(data.balance_snapshots) :
           i # j => data.balance_snapshots[i].date # data.balance_snapshots[j].date

\* The created_at of the rule or entry a row comes from; in the ledger
\* specification the description names it.
CreatedAt(row) ==
    LET from == IF row.is_one_time THEN data.one_time ELSE data.recurring
    IN  from[CHOOSE i \in 1..Len(from) : from[i].description = row.description].created_at

----------------------------------------------------------------------------
(* C1 Conservation: whenever the plan returns a non-empty projected        *)
(* sequence, the last row's balance_after minus the returned starting      *)
(* balance is the sum of the amounts of all projected rows.                *)
Conservation ==
    (PlanOk /\ Rows # <<>>) =>
        Rows[Len(Rows)].balance_after - out.res.starting_balance
            = SumSeq(Rows, LAMBDA r : TRUE, LAMBDA r : r.amount)

ConservationWitness ==
    /\ PlanOk
    /\ Len(Rows) >= 2
    /\ \E i, j \in 1..Len(Rows) : Rows[i].is_one_time /\ ~Rows[j].is_one_time

OneTimeOnAnchor ==
    (PlanOk /\ out.days >= 0) =>
        \A k \in 1..Len(data.one_time) :
            data.one_time[k].date = today =>
                /\ \E i \in 1..Len(Rows) :
                       /\ RowOf(data.one_time[k], Rows[i])
                       /\ \A j \in 1..Len(Rows) : Rows[j].date > today => i < j
                /\ Cardinality({n \in 1..Len(data.one_time) :
                                    data.one_time[n].date = today}) = 1
                       => RowOf(data.one_time[k], Rows[1])
                /\ out.res.starting_balance
                       = project_cashflow(WithoutOneTime(k), today, out.days).starting_balance

OneTimeOnAnchorWitness ==
    /\ PlanOk
    /\ out.days >= 0
    /\ Snap.date < today
    /\ \E k \in 1..Len(data.one_time) : data.one_time[k].date = today
    /\ \E j \in 1..Len(Rows) : Rows[j].date > today

(* C5 Scenario A: the starting balance is 22158 and the projected sequence *)
(* is one row of the rule with balance_after 21680, for every anchor date.  *)
ScenarioA ==
    PlanRan =>
        /\ out.res.ok
        /\ out.res.starting_balance = 22158
        /\ Len(Rows) = 1
        /\ Rows[1].description = "Netflix"
        /\ Rows[1].balance_after = 21680

(* C6: the 30-day projection of scenario A is non-empty and has a row of    *)
(* the rule on the anchor date's day number with the rule's amount.         *)
ScenarioARow ==
    PlanRan =>
        /\ out.res.ok
        /\ Rows # <<>>
        /\ \E i \in 1..Len(Rows) :
               /\ Rows[i].description = "Netflix"
               /\ day(Rows[i].date) = day(today)
               /\ Rows[i].amount = -478

(* C7 Scenario B: the projection has a row with day_of_month 1 and amount   *)
(* -2500 and a row with day_of_month 20 and amount -2940, and every row     *)
(* carries the day_of_month and amount of the rule whose occurrence its     *)
(* date is.                                                                 *)
ScenarioB ==
    PlanRan =>
        /\ out.res.ok
        /\ \E i \in 1..Len(Rows) : Rows[i].day_of_month = 1 /\ Rows[i].amount = -2500
        /\ \E i \in 1..Len(Rows) : Rows[i].day_of_month = 20 /\ Rows[i].amount = -2940
        /\ \A i \in 1..Len(Rows) :
               \E n \in 1..Len(data.recurring) :
                   /\ IsOccurrence(data.recurring[n], Rows[i].date)
                   /\ Rows[i].day_of_month = data.recurring[n].day_of_month
                   /\ Rows[i].amount = data.recurring[n].amount

ScenarioBWitness ==
    /\ PlanRan
    /\ \E i, j \in 1..Len(Rows) :
           /\ i < j
           /\ Rows[i].day_of_month = 20
           /\ Rows[j].day_of_month = 1

(* C8 as stated: with the latest snapshot dated on the anchor date, horizon *)
(* 0 gives an empty projected sequence and the snapshot balance.            *)
EmptyHorizonEmpty ==
    (PlanOk /\ out.days = 0 /\ Snap.date = today) =>
        /\ Rows = <<>>
        /\ out.res.starting_balance = Snap.balance

(* C8 as amended: the starting balance is the snapshot balance and the      *)
(* projected sequence holds one row for each one-time entry dated on the    *)
(* anchor date and nothing else: it is empty when there is no such entry.   *)
EmptyHorizon ==
    (PlanOk /\ out.days = 0 /\ Snap.date = today) =>
        /\ out.res.starting_balance = Snap.balance
        /\ Len(Rows) = Cardinality({k \in 1..Len(data.one_time) :
                                        data.one_time[k].date = today})
        /\ \A i \in 1..Len(Rows) : Rows[i].is_one_time /\ Rows[i].date = today

EmptyHorizonWitness ==
    /\ PlanOk
    /\ out.days = 0
    /\ Snap.date = today
    /\ Rows # <<>>
    /\ ActiveRuleOn(today)

(* C9 No snapshot: with an empty snapshot set the plan fails, and           *)
(* project_cashflow returns the NoBalanceAnchor error for every horizon,    *)
(* whatever rules and one-time entries the ledger holds.                    *)
NoSnapshot ==
    (PlanRan /\ ~HasSnap) =>
        /\ ~out.res.ok
        /\ \A days \in PlanDays :
               project_cashflow(data, today, days) = [ok |-> FALSE, err |-> NoBalanceAnchor]

NoSnapshotWitness ==
    /\ PlanRan
    /\ ~HasSnap
    /\ data.recurring # <<>>
    /\ data.one_time # <<>>

(* C10 Inactive exclusion: the plan's result is the result for the ledger   *)
(* without any one of its inactive rules.                                   *)
InactiveExclusion ==
    PlanOk =>
        \A i \in 1..Len(data.recurring) :
            ~data.recurring[i].active =>
                project_cashflow(WithoutRule(i), today, out.days) = out.res

InactiveExclusionWitness ==
    /\ PlanOk
    /\ Rows # <<>>
    /\ Snap.date < today
    /\ \E i, j \in 1..Len(data.recurring) :
           ~data.recurring[i].active /\ data.recurring[j].active

(* C11 Ordering: the projected rows are sorted by date ascending and, among *)
(* rows of the same date, by the created_at of the rule or entry the row    *)
(* comes from, ascending.                                                   *)
Ordering ==
    PlanOk =>
        \A i, j \in 1..Len(Rows) :
            i < j =>
                \/ Rows[i].date < Rows[j].date
                \/ /\ Rows[i].date = Rows[j].date
                   /\ CreatedAt(Rows[i]) <= CreatedAt(Rows[j])

OrderingWitness ==
    /\ PlanOk
    /\ \E i, j \in 1..Len(Rows) :
           /\ i < j
           /\ Rows[i].date = Rows[j].date
           /\ Rows[i].is_one_time
           /\ ~Rows[j].is_one_time
           /\ CreatedAt(Rows[i]) < CreatedAt(Rows[j])

(* C12 Clamping: a rule with day of month 29, 30 or 31 expanded over an     *)
(* interval (start, end] that holds the last day of a February has an       *)
(* occurrence on that day, February 28 or in a leap year February 29, no    *)
(* other occurrence in that February, and none in March on another day than *)
(* the rule's.                                                              *)
Clamping ==
    (Expanded /\ ExpandedRule.day_of_month \in 29..31) =>
        /\ \A y \in 2024..2026 :
               (out.start_date < LastOfFebruary(y) /\ LastOfFebruary(y) <= out.end_date)
                   => LastOfFebruary(y) \in ExpandedDates
        /\ \A date \in ExpandedDates :
               /\ month(date) = 2 => date = LastOfFebruary(year(date))
               /\ month(date) = 3 => day(date) = ExpandedRule.day_of_month

ClampingWitness ==
    /\ Expanded
    /\ ExpandedRule.day_of_month = 31
    /\ day(out.start_date) = 31
    /\ days_from_civil(2025, 2, 28) \in ExpandedDates
    /\ days_from_civil(2025, 3, 31) \in ExpandedDates

(* C13 Expander contract: for a rule with day of month in 1..31 the         *)
(* expansion over (start, end] is the ascending list of the dates           *)
(* (year, month, min(day of month, length of the month)) with               *)
(* start < date <= end: each once, at most one a month, no other date.      *)
ExpanderContract ==
    (Expanded /\ ExpandedRule.day_of_month \in 1..31) =>
        /\ ExpandedDates
               = {date \in (out.start_date + 1)..out.end_date :
                      IsOccurrence(ExpandedRule, date)}
        /\ \A i, j \in 1..Len(out.res) :
               i < j =>
                   /\ out.res[i].date < out.res[j].date
                   /\ <<year(out.res[i].date), month(out.res[i].date)>>
                          # <<year(out.res[j].date), month(out.res[j].date)>>
        /\ \A i \in 1..Len(out.res) :
               /\ out.res[i].is_recurring
               /\ out.res[i].txn.date = out.res[i].date
               /\ out.res[i].txn.id = ExpandedRule.id
               /\ out.res[i].txn.amount = ExpandedRule.amount

ExpanderContractWitness ==
    /\ Expanded
    /\ ExpandedRule.day_of_month = 30
    /\ Len(out.res) = 2
    /\ day(out.res[1].date) = 29
    /\ out.res[2].date = out.end_date

SnapshotSelection ==
    PlanOk =>
        /\ project_cashflow(OnlyLatestSnapshot, today, out.days) = out.res
        /\ \A k \in 1..Len(data.balance_snapshots) :
               data.balance_snapshots[k].date < Snap.date
                   => project_cashflow(WithoutSnapshot(k), today, out.days) = out.res

SnapshotSelectionWitness ==
    /\ PlanOk
    /\ Len(data.balance_snapshots) = 2
    /\ data.balance_snapshots[1].date > data.balance_snapshots[2].date
    /\ today > Snap.date
    /\ out.res.starting_balance # Snap.balance
    /\ Rows # <<>>

(* C17 as stated: storing the same rules, entries and snapshots in another  *)
(* order gives the same starting balance and the same projected sequence.   *)
OrderIrrelevantAlways ==
    PlanOk =>
        \A d \in Reordered : project_cashflow(d, today, out.days) = out.res

(* C17 as amended: the same, for a ledger in which no two rules and no two  *)
(* one-time entries share an id or a creation timestamp and no two          *)
(* snapshots share a date.                                                  *)
OrderIrrelevant ==
    (PlanOk /\ DistinctKeys) =>
        \A d \in Reordered : project_cashflow(d, today, out.days) = out.res

OrderIrrelevantWitness ==
    /\ PlanOk
    /\ DistinctKeys
    /\ Len(data.balance_snapshots) = 2
    /\ data.balance_snapshots[1].date > data.balance_snapshots[2].date
    /\ Len(data.one_time) = 2
    /\ data.one_time[1].date = data.one_time[2].date
    /\ data.one_time[1].created_at > data.one_time[2].created_at
    /\ Len(Rows) >= 2

(* C18 Totality: with a snapshot, rules of a positive day of month and a   *)
(* horizon >= 0, no date construction of the projection fails: the plan     *)
(* returns a projection.                                                    *)
Totality ==
    (PlanRan /\ HasSnap /\ out.days >= 0) => out.res.ok

(* C20 Running balance: the projected sequence has one row for each        *)
(* occurrence of the window, the first row's balance_after is the starting  *)
(* balance plus its amount, and every later row's balance_after is the      *)
(* previous row's plus its own amount.                                      *)
RunningBalance ==
    PlanOk =>
        /\ Len(Rows)
               = Cardinality({k \in 1..Len(data.one_time) :
                                  /\ today <= data.one_time[k].date
                                  /\ data.one_time[k].date <= today + out.days})
                 + SumSeq(data.recurring, LAMBDA r : r.active,
                          LAMBDA r : Cardinality(
                              {date \in (today + 1)..(today + out.days) :
                                   IsOccurrence(r, date)}))
        /\ \A i \in 1..Len(Rows) :
               Rows[i].balance_after
                   = (IF i = 1 THEN out.res.starting_balance
                               ELSE Rows[i - 1].balance_after)
                     + Rows[i].amount

RunningBalanceWitness ==
    /\ PlanOk
    /\ Len(Rows) = 2
    /\ Rows[1].is_one_time
    /\ ~Rows[2].is_one_time
    /\ out.res.starting_balance # Snap.balance

(* C19 Atomic save: at every step of every save, a crash and a second save *)
(* of another process included, data.ron holds the complete previous ledger *)
(* or a complete new one, and load_data reads a ledger.                     *)
AtomicSave ==
    /\ disk.ron # 0
    /\ from_str(disk.inodes[disk.ron]) \in {<<data>>} \cup {<<saved(p)>> : p \in Savers}
    /\ out.cmd = "load" => out.res.ok

----------------------------------------------------------------------------
(* The month pointer of the expander, under SpecT *)

\* The calendar's own length of a month.
MonthLength(y, m) ==
    IF m = 2 THEN (IF IsLeap(y) THEN 29 ELSE 28)
    ELSE IF m \in {4, 6, 9, 11} THEN 30 ELSE 31

\* Calendar months counted from year 0.
MonthIndex(date) == 12 * year(date) + month(date) - 1

\* The year and the month of the calendar month after date's.
FollowingYear(date) == IF month(date) = 12 THEN year(date) + 1 ELSE year(date)
FollowingMonth(date) == IF month(date) = 12 THEN 1 ELSE month(date) + 1

\* The day number of date does not exist in the following month.
DayMissingInFollowing(date) ==
    day(date) > MonthLength(FollowingYear(date), FollowingMonth(date))

\* The pointer the loop holds after its i-th iteration.
PointerAfter(i) ==
    IF i < Len(out.pointers) THEN out.pointers[i + 1] ELSE out.current_date

\* The number of calendar months from start_date's through end_date's, and
\* one when end_date's month is before start_date's.
MonthSpan ==
    LET n == MonthIndex(out.end_date) - MonthIndex(out.start_date) + 1
    IN  IF n < 1 THEN 1 ELSE n

(* C21 Month-pointer skip, as the specification states it: a pointer on a  *)
(* day number that the following month does not have moves to the 1st of    *)
(* the following month's successor, so that the following month is skipped. *)
MonthPointerSkip ==
    out.cmd = "loop" =>
        \A i \in 1..Len(out.pointers) :
            DayMissingInFollowing(out.pointers[i]) =>
                MonthIndex(PointerAfter(i)) = MonthIndex(out.pointers[i]) + 2

(* C21 amended: a pointer on a day number that the following month does    *)
(* not have moves to the 1st of the following month itself; no month is     *)
(* skipped, and every occurrence of the rule in (start_date, end_date] is   *)
(* in the result.                                                           *)
NoMonthSkipped ==
    out.cmd = "loop" =>
        /\ \A i \in 1..Len(out.pointers) :
               DayMissingInFollowing(out.pointers[i]) =>
                   PointerAfter(i)
                       = days_from_civil(FollowingYear(out.pointers[i]),
                                         FollowingMonth(out.pointers[i]), 1)
        /\ out.done =>
               \A date \in (out.start_date + 1)..out.end_date :
                   IsOccurrence(data.recurring[1], date) =>
                       \E k \in 1..Len(out.transactions) :
                           out.transactions[k].date = date

NoMonthSkippedWitness ==
    /\ out.cmd = "loop"
    /\ out.done
    /\ day(out.start_date) = 31
    /\ month(out.start_date) = 1
    /\ data.recurring[1].day_of_month = 31
    /\ Len(out.pointers) >= 2
    /\ month(out.pointers[2]) = 2
    /\ \E k \in 1..Len(out.transactions) :
           /\ month(out.transactions[k].date) = 2
           /\ day(out.transactions[k].date) = 28

(* C22 next_month: the result is in the calendar month immediately after   *)
(* the input's, December followed by January of the next year, on the       *)
(* input's day number if that month has it and on day 1 otherwise.          *)
NextMonthContract ==
    out.cmd = "loop" =>
        \A i \in 1..Len(out.pointers) :
            LET p == out.pointers[i]
            IN  PointerAfter(i)
                    = days_from_civil(FollowingYear(p), FollowingMonth(p),
                                      IF DayMissingInFollowing(p) THEN 1 ELSE day(p))

NextMonthContractWitness ==
    /\ out.cmd = "loop"
    /\ Len(out.pointers) = 3
    /\ month(out.pointers[1]) = 12
    /\ day(out.pointers[1]) = 31
    /\ year(out.pointers[2]) = year(out.pointers[1]) + 1
    /\ day(out.pointers[2]) = 31
    /\ day(out.pointers[3]) = 1
    /\ month(out.pointers[3]) = 2

(* C25 Day resolution: for a pointer in any month and a target day >= 1,   *)
(* get_transaction_date_in_month returns the date of the pointer's year and *)
(* month whose day is the smaller of the target and the month's length.     *)
DayResolution ==
    out.cmd = "loop" =>
        \A i \in 1..Len(out.pointers) :
            LET p == out.pointers[i]
                target == data.recurring[1].day_of_month
                L == MonthLength(year(p), month(p))
            IN  out.resolved[i]
                    = <<days_from_civil(year(p), month(p),
                                        IF target < L THEN target ELSE L)>>

DayResolutionWitness ==
    /\ out.cmd = "loop"
    /\ Len(out.pointers) >= 1
    /\ data.recurring[1].day_of_month = 255
    /\ month(out.pointers[1]) = 2
    /\ out.resolved[1] # <<>>
    /\ day(out.resolved[1][1]) = 29

(* C30 Termination: the loop of generate_recurring_transactions runs its   *)
(* body once for each calendar month from start_date's through end_date's,  *)
(* in order, and once when end_date's month is before start_date's; then it *)
(* has exited. With end_date before start_date the result is empty.         *)
Termination ==
    out.cmd = "loop" =>
        /\ Len(out.pointers) <= MonthSpan
        /\ out.done <=> Len(out.pointers) = MonthSpan
        /\ \A i \in 1..Len(out.pointers) :
               MonthIndex(out.pointers[i]) = MonthIndex(out.start_date) + i - 1
        /\ MonthIndex(out.current_date)
               = MonthIndex(out.start_date) + Len(out.pointers)
        /\ out.end_date < out.start_date => out.transactions = <<>>
        /\ out.done =>
               out.transactions
                   = generate_recurring_transactions(data.recurring[1],
                                                     out.start_date, out.end_date)

TerminationWitness ==
    /\ out.cmd = "loop"
    /\ out.done
    /\ out.end_date < out.start_date
    /\ MonthIndex(out.end_date) < MonthIndex(out.start_date)
    /\ Len(out.pointers) = 1

----------------------------------------------------------------------------
(* Snapshots of the same date, under SpecN *)

\* The positions of the snapshots of the latest date.
MaxDated ==
    {i \in 1..Len(data.balance_snapshots) :
        \A j \in 1..Len(data.balance_snapshots) :
            data.balance_snapshots[j].date <= data.balance_snapshots[i].date}

FirstMaxDated == CHOOSE i \in MaxDated : \A j \in MaxDated : i <= j
LastMaxDated == CHOOSE i \in MaxDated : \A j \in MaxDated : j <= i

(* C23 Snapshot tie, as the specification states it: when several          *)
(* snapshots share the maximum date, find_latest_balance_snapshot returns   *)
(* the first of them in ledger order.                                       *)
SnapshotTieFirst ==
    (out.cmd = "latest" /\ HasSnap) =>
        out.res = <<data.balance_snapshots[FirstMaxDated]>>

(* C23 amended: when several snapshots share the maximum date,             *)
(* find_latest_balance_snapshot returns the last of them in ledger order,   *)
(* and the plan starts from that snapshot's balance.                        *)
SnapshotTieLast ==
    /\ (out.cmd = "latest" /\ HasSnap) =>
           out.res = <<data.balance_snapshots[LastMaxDated]>>
    /\ (PlanOk /\ HasSnap) =>
           out.res.starting_balance = data.balance_snapshots[LastMaxDated].balance

SnapshotTieLastWitness ==
    /\ out.cmd = "latest"
    /\ Cardinality(MaxDated) = 3
    /\ out.res # <<>>
    /\ out.res[1].id = data.balance_snapshots[3].id
    /\ out.res[1].balance # data.balance_snapshots[1].balance

----------------------------------------------------------------------------
(* The day_of_month field of the projected rows, under Spec *)

(* C24 Day-of-month actually used, as the specification states it: in      *)
(* every projected row, of a rule or of a one-time entry, day_of_month is   *)
(* the day number of the row's date.                                        *)
DayOfMonthOfDate ==
    PlanOk => \A i \in 1..Len(Rows) : Rows[i].day_of_month = day(Rows[i].date)

(* C24 amended: a one-time row's day_of_month is the day number of its     *)
(* date; a recurring row's day_of_month is the day its rule is configured   *)
(* with, which is not the date's day number when the occurrence is clamped. *)
DayOfMonthField ==
    PlanOk =>
        \A i \in 1..Len(Rows) :
            IF Rows[i].is_one_time
            THEN Rows[i].day_of_month = day(Rows[i].date)
            ELSE \E n \in 1..Len(data.recurring) :
                     /\ data.recurring[n].active
                     /\ IsOccurrence(data.recurring[n], Rows[i].date)
                     /\ Rows[i].day_of_month = data.recurring[n].day_of_month

DayOfMonthFieldWitness ==
    /\ PlanOk
    /\ \E i \in 1..Len(Rows) :
           /\ ~Rows[i].is_one_time
           /\ Rows[i].day_of_month = 31
           /\ day(Rows[i].date) = 29
    /\ \E i \in 1..Len(Rows) : Rows[i].is_one_time

----------------------------------------------------------------------------
(* The balance the projection ends with, under Spec *)

\* The last row's balance_after, or the starting balance when there is no row.
FinalBalance ==
    IF Rows = <<>> THEN out.res.starting_balance
    ELSE Rows[Len(Rows)].balance_after

(* C26 Exactly-once accounting across the anchor: when the anchor date is  *)
(* after the snapshot date and the horizon is >= 0, the final balance is    *)
(* the snapshot balance plus the amount of every one-time entry with        *)
(* snapshot date < date <= anchor date + horizon plus the amount of every   *)
(* occurrence of an active rule in (snapshot date, anchor date + horizon],  *)
(* each counted once.                                                       *)
ExactlyOnce ==
    (PlanOk /\ today > Snap.date /\ out.days >= 0) =>
        FinalBalance
            = Snap.balance
              + SumSeq(data.one_time,
                       LAMBDA e : Snap.date < e.date /\ e.date <= today + out.days,
                       LAMBDA e : e.amount)
              + SumSeq(data.recurring, LAMBDA r : r.active,
                       LAMBDA r : r.amount * Cardinality(
                           {date \in (Snap.date + 1)..(today + out.days) :
                                IsOccurrence(r, date)}))

ExactlyOnceWitness ==
    /\ PlanOk
    /\ out.days = 30
    /\ Snap.date < today
    /\ \E k \in 1..Len(data.one_time) : data.one_time[k].date = today
    /\ ActiveRuleOn(today)
    /\ \E i \in 1..Len(Rows) : ~Rows[i].is_one_time
    /\ FinalBalance # out.res.starting_balance

----------------------------------------------------------------------------
(* The snapshots balance set stores, under Spec *)

\* The positions of the snapshots of date in the ledger d.
SnapshotsOf(d, date) ==
    {i \in 1..Len(d.balance_snapshots) : d.balance_snapshots[i].date = date}

(* C27 Unique snapshot dates: from an empty ledger, in every state no two  *)
(* stored snapshots share a date, and every step that is a successful       *)
(* balance set of an amount for a date leaves one snapshot of that date,    *)
(* holding that amount: the snapshot the date had, at its place and with    *)
(* its identifier, when it had one, and else a new last one; every other    *)
(* snapshot is as it was.                                                   *)
UniqueSnapshotDates ==
    /\ [](\A i, j \in 1..Len(data.balance_snapshots) :
              i # j => data.balance_snapshots[i].date # data.balance_snapshots[j].date)
    /\ [][\A amount \in {22158, 10000} :
          \A date_str \in {<<>>, <<(<<today - 35>>)>>} :
              (out' \in {Ok, Updated} /\ execute_balance_set(<<amount>>, date_str)) =>
                  LET date == IF date_str = <<>> THEN today ELSE date_str[1][1]
                      old == data.balance_snapshots
                      new == data'.balance_snapshots
                  IN  /\ \E i \in 1..Len(new) :
                             /\ SnapshotsOf(data', date) = {i}
                             /\ new[i].balance = amount
                      /\ IF SnapshotsOf(data, date) # {}
                         THEN /\ Len(new) = Len(old)
                              /\ \A i \in 1..Len(old) :
                                     IF old[i].date = date
                                     THEN new[i] = [old[i] EXCEPT !.balance = amount]
                                     ELSE new[i] = old[i]
                         ELSE /\ Len(new) = Len(old) + 1
                              /\ SubSeq(new, 1, Len(old)) = old
                              /\ new[Len(new)].date = date]_vars

UniqueSnapshotDatesWitness ==
    /\ out = Updated
    /\ Len(data.balance_snapshots) = 2
    /\ data.balance_snapshots[1].date = today
    /\ data.balance_snapshots[1].balance = 10000
    /\ data.balance_snapshots[1].id < data.balance_snapshots[2].id

----------------------------------------------------------------------------
(* The commands that write the ledger, under SpecC *)

(* C28 Day-of-month range: after any sequence of recurring add, edit,      *)
(* enable, disable and delete (and of the other commands that write the     *)
(* ledger), every stored rule's day_of_month is in 1..31.                   *)
DayOfMonthRange ==
    \A i \in 1..Len(data.recurring) : data.recurring[i].day_of_month \in 1..31

DayOfMonthRangeWitness ==
    /\ out = Failed("recurring edit", "Day must be between 1 and 31")
    /\ Len(data.recurring) = 2
    /\ data.recurring[1].day_of_month = 15
    /\ ~data.recurring[1].active
    /\ data.recurring[2].id = 3

(* C29 Failed command leaves the ledger unchanged: a step of a command     *)
(* that returns an error (an amount or a date that does not parse, a day    *)
(* outside 1..31, an identifier no record has, a prefix that several        *)
(* records have or that is too short) leaves the ledger as it was; a        *)
(* recurring edit with a valid amount and an invalid day stores neither.    *)
FailedCommandUnchanged ==
    [][(out'.cmd # "none" /\ ~out'.ok) => data' = data]_vars

FailedCommandUnchangedWitness ==
    /\ out = Failed("recurring edit", "Day must be between 1 and 31")
    /\ Len(data.recurring) = 1
    /\ data.recurring[1].amount = -478
    /\ data.recurring[1].day_of_month = 31

====
